---- MODULE Spec2Model ----
(***************************************************************************)
(* Remiro AI backend: the user profile and conversation store              *)
(* (backend/utils/UserManager.js) and the progress arithmetic built on it. *)
(*                                                                         *)
(* Strings that the code inspects character by character (user names,      *)
(* user ids, directory names, session file names) are sequences of         *)
(* one-character strings.  JSON values that the code only stores and       *)
(* compares with null are strings holding their JSON text.                 *)
(***************************************************************************)
EXTENDS Integers, Sequences, FiniteSets, TLC

VARIABLES
    store,    \* data/users: directory name -> [profile, hasSessions, sessions]
    now,      \* the wall clock read by new Date(); it stands still here, so
              \* every timestamp written is the same instant
    last,     \* outcome of the most recently completed store call
    nWrites,  \* number of updateUserProfile / saveConversation calls so far
    hist,     \* history: per directory and session file, the turns appended
    expect,   \* history: per directory, the dimension values acknowledged
    procs,    \* the calls in flight: position and locals of each
    overlapped, \* history: a call has started while another was in flight
    chat,     \* the POST /api/chat request in flight: position and locals
    user_profile, \* the profile the dashboard options are computed from
    ui        \* the React state of App, UserProvider and ChatInterface

vars ==
    <<store, now, last, nWrites, hist, expect, procs, overlapped, chat,
      user_profile, ui>>

-----------------------------------------------------------------------------
(* Bounds of the model *)

MaxWrites == 2
MaxCalls == 4
MaxClock == 2
MaxChats == 2
MaxSubmits == 3

-----------------------------------------------------------------------------
(* Characters and strings *)

Letters == {"a", "b"}
Digits == {"1"}
Whitespace == {" "}

\* /[^a-zA-Z0-9\s]/ : the characters name.replace() keeps
IsNameChar(c) == c \in Letters \cup Digits \cup Whitespace

RECURSIVE TrimLeft(_)
TrimLeft(s) ==
    IF s # <<>> /\ Head(s) \in Whitespace THEN TrimLeft(Tail(s)) ELSE s

RECURSIVE TrimRight(_)
TrimRight(s) ==
    IF s # <<>> /\ s[Len(s)] \in Whitespace
    THEN TrimRight(SubSeq(s, 1, Len(s) - 1))
    ELSE s

\* String.prototype.trim
Trim(s) == TrimRight(TrimLeft(s))

\* name.replace(/[^a-zA-Z0-9\s]/g, '').trim()
Sanitize(name) == Trim(SelectSeq(name, IsNameChar))

\* String.prototype.includes
Includes(s, t) ==
    \E i \in 0..(Len(s) - Len(t)) : SubSeq(s, i + 1, i + Len(t)) = t

\* mutant: the directory is named after the user alone
UserDirNameWithoutId(sanitizedName, userId) == sanitizedName \o <<"_">>

\* path.join(usersDir, `${sanitizedName}_${userId}`)
UserDirName(sanitizedName, userId) == sanitizedName \o <<"_">> \o userId

-----------------------------------------------------------------------------
(* JSON values *)

\* the JSON literal null
Null == "null"

\* JavaScript undefined: JSON.stringify leaves such a property out
Undefined == "undefined"

\* the keys of userData.profile written by createUser
DimensionKeys ==
    {"cognitiveAbilities", "personality", "emotionalIntelligence",
     "physicalContext", "strengthsWeaknesses", "skills", "constraints",
     "interests", "motivationsValues", "aspirations", "trackRecord",
     "learningPreferences"}

\* the userData object createUser builds
NewUserData(userId, sanitizedName, t) ==
    [id |-> userId,
     name |-> sanitizedName,
     createdAt |-> t,
     updatedAt |-> <<>>,
     profile |-> [k \in DimensionKeys |-> Null],
     sessions |-> <<>>]

\* mutant: the record is rebuilt around the one slot being written
AssignDimensionAlone(userData, dimension, data, t) ==
    [userData EXCEPT
        !.profile = [k \in (DOMAIN userData.profile) \cup {dimension} |->
                        IF k = dimension THEN data ELSE Null],
        !.updatedAt = <<t>>]

\* mutant: the slot is written and updatedAt is left as it was
AssignDimensionKeepingStamp(userData, dimension, data, t) ==
    [userData EXCEPT
        !.profile = [k \in (DOMAIN userData.profile) \cup {dimension} |->
                        IF k = dimension THEN data ELSE userData.profile[k]]]

\* profile.profile[dimension] = data; profile.updatedAt = new Date()
AssignDimension(userData, dimension, data, t) ==
    [userData EXCEPT
        !.profile = [k \in (DOMAIN userData.profile) \cup {dimension} |->
                        IF k = dimension THEN data ELSE userData.profile[k]],
        !.updatedAt = <<t>>]

\* fs.writeJson followed by fs.readJson: properties holding undefined are lost
WriteJson(userData) ==
    [userData EXCEPT
        !.profile = [k \in {x \in DOMAIN userData.profile :
                                userData.profile[x] # Undefined} |->
                        userData.profile[k]]]

\* mutant: unshift instead of push
PushFront(sessionData, conversation) == <<conversation>> \o sessionData

\* sessionData.push(conversation)
Push(sessionData, conversation) == Append(sessionData, conversation)

\* mutant: no default name for an omitted sessionId
SessionFileNoDefault(sessionId) == sessionId \o <<".json">>

\* `${sessionId || 'default'}.json`; the extension is one token
SessionFile(sessionId) ==
    (IF sessionId = <<>> THEN <<"default">> ELSE sessionId) \o <<".json">>

RECURSIVE RemoveFirst(_, _)
RemoveFirst(s, tok) ==
    IF s = <<>> THEN <<>>
    ELSE IF Head(s) = tok THEN Tail(s)
    ELSE <<Head(s)>> \o RemoveFirst(Tail(s), tok)

\* file.replace('.json', ''): removes the first occurrence only
SessionLabel(file) == RemoveFirst(file, ".json")

-----------------------------------------------------------------------------
(* The directory tree under data/users *)

\* what createUser leaves on disk for one user
NewUserDir(userData) ==
    [profile |-> <<WriteJson(userData)>>,
     hasSessions |-> FALSE,
     sessions |-> <<>>]

\* mutant: fall back to the whole listing when nothing matches
MatchingDirsOrAll(st, userId) ==
    IF \E d \in DOMAIN st : Includes(d, userId)
    THEN {d \in DOMAIN st : Includes(d, userId)}
    ELSE DOMAIN st

\* mutant: every directory matches, whatever the id
MatchingDirsIgnoringId(st, userId) == DOMAIN st

\* fs.readdir(usersDir) ... find(dir => dir.includes(userId)); readdir
\* promises no order, so any matching entry can be the first one
MatchingDirs(st, userId) == {d \in DOMAIN st : Includes(d, userId)}

\* the user ids already handed out
UsedIds(st) == {st[d].profile[1].id : d \in {x \in DOMAIN st : st[x].profile # <<>>}}

\* mutant: a listing may name one entry twice and leave another out
ListingsWithRepeats(S) == [1..Cardinality(S) -> S]

\* the arrangements of a finite set as a sequence (a readdir listing)
Listings(S) ==
    {s \in [1..Cardinality(S) -> S] : \A i, j \in DOMAIN s : s[i] = s[j] => i = j}

-----------------------------------------------------------------------------
(* Inputs *)

\* uuidv4(): hexadecimal groups joined by hyphens; the values it returns here
UUIDs == {<<"a", "-", "1">>, <<"b", "-", "2">>}

\* a well-formed id that uuidv4() never returned
UnknownId == <<"2", "-", "2">>

\* names as typed; the first loses characters when sanitized, the second
\* loses all of them
RawNames == {<<" ", "a", "!">>, <<"!", " ">>}

\* ids handed to the lookups: real ids, an unknown id and a fragment
LookupIds == UUIDs \cup {UnknownId, <<"a">>}

\* dimension arguments: one of the fixed keys and one that is none of them
DimensionInputs == {"personality", "favouriteColour"}

\* data arguments of updateUserProfile
DataInputs == {"r1", "r2", Null}

\* sessionId arguments; <<>> is an omitted (falsy) sessionId
SessionIds == {<<>>, <<"default">>, <<"s1">>}

Messages == {"m1", "m2"}

\* the object POST /api/chat hands to saveConversation
Conversation(t, message) ==
    [timestamp |-> t, userMessage |-> message, botResponse |-> "response"]

-----------------------------------------------------------------------------
(* Outcomes *)

NoCall == [op |-> "none", args |-> <<>>, ok |-> TRUE, err |-> <<>>, ret |-> <<>>]

Returned(op, args, value) ==
    [op |-> op, args |-> args, ok |-> TRUE, err |-> <<>>, ret |-> <<value>>]

\* throw new Error(`${prefix}: ${error.message}`)
Thrown(op, args, prefix, message) ==
    [op |-> op, args |-> args, ok |-> FALSE, err |-> <<prefix, message>>,
     ret |-> <<>>]

\* the message of the Error raised when no directory matches
UserNotFound == "User not found"

\* the message of the error fs.readJson raises for a missing file
NoSuchFile == "ENOENT"

-----------------------------------------------------------------------------
(* Progress arithmetic *)

\* Math.round of the quotient num / den (den > 0): half-way cases go up
MathRound(num, den) == (2 * num + den) \div (2 * den)

\* Object.values(profile).filter(val => val !== null).length
CompletedCount(profile) == Cardinality({k \in DOMAIN profile : profile[k] # Null})

\* mutant: Math.floor instead of Math.round
CalculateProfileCompletenessFloor(profile) ==
    (CompletedCount(profile) * 100) \div Cardinality(DOMAIN profile)

\* calculateProfileCompleteness: Math.round((completed / total) * 100)
CalculateProfileCompleteness(profile) ==
    LET totalDimensions == Cardinality(DOMAIN profile)
        completedDimensions == CompletedCount(profile)
    IN  IF totalDimensions = 0
        THEN "NaN"
        ELSE MathRound(completedDimensions * 100, totalDimensions)

\* getAssessedDimensions: the keys whose value is not null
GetAssessedDimensions(profile) == {k \in DOMAIN profile : profile[k] # Null}

\* generateRecommendations: "Complete <dimension> assessment ..." for every
\* null slot, and the single "Profile complete!" entry when there is none
GenerateRecommendations(profile) ==
    LET pending == {k \in DOMAIN profile : profile[k] = Null}
    IN  [complete |-> pending, profileComplete |-> pending = {}]

\* mutant: totalMessages counts the sessions
GenerateConversationSummaryBySession(sessions) ==
    LET lastSession == sessions[Len(sessions)]
    IN  [totalMessages |-> Len(sessions),
         threw |-> sessions # <<>> /\ lastSession.data = <<>>,
         lastActivity |->
            IF sessions = <<>> \/ lastSession.data = <<>> THEN <<>>
            ELSE <<lastSession.data[Len(lastSession.data)].timestamp>>]

\* generateConversationSummary; lastActivity is <<>> for null, and reading
\* the last turn of an empty session throws a TypeError
GenerateConversationSummary(sessions) ==
    LET lengths == [i \in DOMAIN sessions |-> Len(sessions[i].data)]
        Sum[i \in 0..Len(sessions)] ==
            IF i = 0 THEN 0 ELSE Sum[i - 1] + lengths[i]
        lastSession == sessions[Len(sessions)]
    IN  [totalMessages |-> Sum[Len(sessions)],
         threw |-> sessions # <<>> /\ lastSession.data = <<>>,
         lastActivity |->
            IF sessions = <<>> \/ lastSession.data = <<>> THEN <<>>
            ELSE <<lastSession.data[Len(lastSession.data)].timestamp>>]

-----------------------------------------------------------------------------
(* Operations of UserManager, each run from call to return *)

\* the callers that can have a call in flight
Procs == {"p1", "p2"}

\* a caller with no call in flight
Idle ==
    [pc |-> "idle", op |-> "none", userId |-> <<>>, dimension |-> "",
     data |-> "", sessionId |-> <<>>, conversation |-> <<>>, userDir |-> <<>>,
     buf |-> <<>>]

\* history of acknowledged dimension writes: slot k of directory d now holds v
Acknowledge(e, d, k, v) ==
    [e EXCEPT ![d] = [x \in (DOMAIN e[d]) \cup {k} |-> IF x = k THEN v ELSE e[d][x]]]

\* history of acknowledged appends
Appended(h, key, conversation) ==
    IF key \in DOMAIN h
    THEN [h EXCEPT ![key] = Append(@, conversation)]
    ELSE (key :> <<conversation>>) @@ h

\* no chat request in flight
NoChat ==
    [pc |-> "idle", message |-> "", userId |-> <<>>, sessionId |-> <<>>,
     userContext |-> <<>>, agentDecision |-> <<>>, response |-> <<>>,
     reply |-> <<>>, events |-> <<>>, llm |-> <<>>]

\* the React state before the first render: useState(null), useState([]),
\* useState(''), useState(false), useState('master'); pending, sent and
\* ignored are the requests in flight and the history of the requests sent
\* and of the submits dropped while one was in flight
NoUi ==
    [mounted |-> FALSE, currentUser |-> <<>>, registering |-> <<>>,
     error |-> "", user |-> <<>>, sessionId |-> <<>>,
     conversationHistory |-> <<>>, messages |-> <<>>, inputMessage |-> <<>>,
     isLoading |-> FALSE, currentAgent |-> "master", pending |-> <<>>,
     sent |-> <<>>, submits |-> 0, ignored |-> 0]

Init ==
    /\ store = <<>>
    /\ now = 0
    /\ last = NoCall
    /\ nWrites = 0
    /\ hist = <<>>
    /\ expect = <<>>
    /\ procs = [p \in Procs |-> Idle]
    /\ overlapped = FALSE
    /\ chat = NoChat
    /\ user_profile = [assessments |-> <<>>]
    /\ ui = NoUi

CreateUser(name, userId) ==
    LET sanitizedName == Sanitize(name)
        userDir == UserDirName(sanitizedName, userId)
        userData == NewUserData(userId, sanitizedName, now)
    IN  /\ store' = IF userDir \in DOMAIN store
                    THEN [store EXCEPT ![userDir].profile = <<WriteJson(userData)>>]
                    ELSE (userDir :> NewUserDir(userData)) @@ store
        /\ last' = Returned("createUser", <<name>>,
                            [userId |-> userId, name |-> sanitizedName])
        /\ expect' = (userDir :> [k \in DimensionKeys |-> Null]) @@ expect
        /\ UNCHANGED <<now, hist>>

\* every outcome getUserContext(userId) can have on the tree st
GetUserContextOutcomes(st, userId) ==
    LET matches == MatchingDirs(st, userId)
        args == <<userId>>
        prefix == "Failed to get user context"
    IN  IF matches = {}
        THEN {Thrown("getUserContext", args, prefix, UserNotFound)}
        ELSE {IF st[userDir].profile = <<>>
              THEN Thrown("getUserContext", args, prefix, NoSuchFile)
              ELSE Returned("getUserContext", args, st[userDir].profile[1]) :
                userDir \in matches}

GetUserContext(userId) ==
    /\ last' \in GetUserContextOutcomes(store, userId)
    /\ UNCHANGED <<store, now, hist, expect>>

UpdateUserProfile(userId, dimension, data) ==
    LET matches == MatchingDirs(store, userId)
        args == <<userId, dimension, data>>
        prefix == "Failed to update user profile"
    IN  /\ IF matches = {}
           THEN /\ last' = Thrown("updateUserProfile", args, prefix, UserNotFound)
                /\ UNCHANGED <<store, expect>>
           ELSE \E userDir \in matches :
                    IF store[userDir].profile = <<>>
                    THEN /\ last' = Thrown("updateUserProfile", args, prefix,
                                           NoSuchFile)
                         /\ UNCHANGED <<store, expect>>
                    ELSE LET profile == AssignDimension(store[userDir].profile[1],
                                                        dimension, data, now)
                         IN  /\ store' = [store EXCEPT
                                            ![userDir].profile = <<WriteJson(profile)>>]
                             /\ last' = Returned("updateUserProfile", args, profile)
                             /\ expect' = Acknowledge(expect, userDir, dimension, data)
        /\ UNCHANGED <<now, hist>>

SaveConversation(userId, sessionId, conversation) ==
    LET matches == MatchingDirs(store, userId)
        args == <<userId, sessionId, conversation>>
        prefix == "Failed to save conversation"
    IN  /\ IF matches = {}
           THEN /\ last' = Thrown("saveConversation", args, prefix, UserNotFound)
                /\ UNCHANGED <<store, hist>>
           ELSE \E userDir \in matches :
                    LET sessionFile == SessionFile(sessionId)
                        files == store[userDir].sessions
                        sessionData == IF sessionFile \in DOMAIN files
                                       THEN files[sessionFile]
                                       ELSE <<>>
                        pushed == Push(sessionData, conversation)
                        key == <<userDir, sessionFile>>
                    IN  /\ store' = [store EXCEPT
                                        ![userDir].hasSessions = TRUE,
                                        ![userDir].sessions =
                                            (sessionFile :> pushed) @@ files]
                        /\ last' = Returned("saveConversation", args, pushed)
                        /\ hist' = Appended(hist, key, conversation)
        /\ UNCHANGED <<now, expect>>

\* the sessions array getUserData builds from a readdir listing
ReadSessions(dir) ==
    IF dir.hasSessions
    THEN {[i \in DOMAIN listing |->
              [sessionId |-> SessionLabel(listing[i]),
               data |-> dir.sessions[listing[i]]]] :
            listing \in Listings(DOMAIN dir.sessions)}
    ELSE {<<>>}

GetUserData(userId) ==
    LET matches == MatchingDirs(store, userId)
        args == <<userId>>
        prefix == "Failed to get user data"
    IN  /\ IF matches = {}
           THEN last' = Thrown("getUserData", args, prefix, UserNotFound)
           ELSE \E userDir \in matches :
                    IF store[userDir].profile = <<>>
                    THEN last' = Thrown("getUserData", args, prefix, NoSuchFile)
                    ELSE \E sessions \in ReadSessions(store[userDir]) :
                            last' = Returned("getUserData", args,
                                        [profile |-> store[userDir].profile[1],
                                         sessions |-> sessions,
                                         folderPath |-> userDir])
        /\ UNCHANGED <<store, now, hist, expect>>

\* getUserSummary: getUserData, then the four derived fields
GetUserSummary(userId) ==
    LET matches == MatchingDirs(store, userId)
        args == <<userId>>
        prefix == "Failed to generate user summary"
        inner == "Failed to get user data: "
    IN  /\ IF matches = {}
           THEN last' = Thrown("getUserSummary", args, prefix, inner \o UserNotFound)
           ELSE \E userDir \in matches :
                    IF store[userDir].profile = <<>>
                    THEN last' = Thrown("getUserSummary", args, prefix,
                                        inner \o NoSuchFile)
                    ELSE \E sessions \in ReadSessions(store[userDir]) :
                        LET profile == store[userDir].profile[1]
                            conversationSummary ==
                                GenerateConversationSummary(sessions)
                        IN  last' =
                              IF conversationSummary.threw
                              THEN Thrown("getUserSummary", args, prefix, "TypeError")
                              ELSE Returned("getUserSummary", args,
                                    [user |-> [name |-> profile.name,
                                               createdAt |-> profile.createdAt,
                                               totalSessions |-> Len(sessions)],
                                     profileCompleteness |->
                                        CalculateProfileCompleteness(profile.profile),
                                     dimensionsAssessed |->
                                        GetAssessedDimensions(profile.profile),
                                     conversationSummary |-> conversationSummary,
                                     recommendations |->
                                        GenerateRecommendations(profile.profile)])
        /\ UNCHANGED <<store, now, hist, expect>>

\* mutant: every response is sent with status 200
RespondedOk(op, args, status, body) ==
    [op |-> op, args |-> args, ok |-> TRUE, err |-> <<>>,
     ret |-> <<[status |-> 200, body |-> body]>>]

\* an HTTP response
Responded(op, args, status, body) ==
    [op |-> op, args |-> args, ok |-> status = 200, err |-> <<>>,
     ret |-> <<[status |-> status, body |-> body]>>]

\* POST /api/register-user
RegisterUser(name, userId) ==
    IF name = <<>>
    THEN /\ last' = Responded("POST /api/register-user", <<name>>, 400,
                              "Name is required")
         /\ UNCHANGED <<store, now, hist, expect>>
    ELSE LET sanitizedName == Sanitize(name)
             userDir == UserDirName(sanitizedName, userId)
             userData == NewUserData(userId, sanitizedName, now)
         IN  /\ store' = IF userDir \in DOMAIN store
                         THEN [store EXCEPT
                                ![userDir].profile = <<WriteJson(userData)>>]
                         ELSE (userDir :> NewUserDir(userData)) @@ store
             /\ last' = Responded("POST /api/register-user", <<name>>, 200,
                                  [userId |-> userId, name |-> sanitizedName])
             /\ expect' = (userDir :> [k \in DimensionKeys |-> Null]) @@ expect
             /\ UNCHANGED <<now, hist>>

\* the operations run one at a time, each from call to return
idle == UNCHANGED <<procs, overlapped, chat, user_profile, ui>>

Next ==
    \/ /\ \E name \in RawNames, userId \in UUIDs \ UsedIds(store) :
            CreateUser(name, userId)
       /\ UNCHANGED nWrites
       /\ idle
    \/ /\ \E name \in RawNames \cup {<<>>}, userId \in UUIDs \ UsedIds(store) :
            RegisterUser(name, userId)
       /\ UNCHANGED nWrites
       /\ idle
    \/ /\ \E userId \in LookupIds : GetUserContext(userId)
       /\ UNCHANGED nWrites
       /\ idle
    \/ /\ nWrites < MaxWrites
       /\ \E userId \in LookupIds, dimension \in DimensionInputs, data \in DataInputs :
            UpdateUserProfile(userId, dimension, data)
       /\ nWrites' = nWrites + 1
       /\ idle
    \/ /\ nWrites < MaxWrites
       /\ \E userId \in LookupIds, sessionId \in SessionIds, message \in Messages :
            SaveConversation(userId, sessionId, Conversation(now, message))
       /\ nWrites' = nWrites + 1
       /\ idle
    \/ /\ \E userId \in LookupIds : GetUserData(userId)
       /\ UNCHANGED nWrites
       /\ idle
    \/ /\ \E userId \in LookupIds : GetUserSummary(userId)
       /\ UNCHANGED nWrites
       /\ idle

Spec == Init /\ [][Next]_vars

-----------------------------------------------------------------------------
(* Progress over all 12 dimensions: one user, every key can be written *)

ProgressName == <<" ", "a", "!">>
ProgressId == <<"a", "-", "1">>

NextProgress ==
    \/ /\ store = <<>>
       /\ CreateUser(ProgressName, ProgressId)
       /\ UNCHANGED nWrites
       /\ idle
    \/ /\ \E dimension \in DimensionKeys :
            UpdateUserProfile(ProgressId, dimension, "r1")
       /\ UNCHANGED nWrites
       /\ idle
    \/ /\ GetUserSummary(ProgressId)
       /\ UNCHANGED nWrites
       /\ idle

SpecProgress == Init /\ [][NextProgress]_vars

-----------------------------------------------------------------------------
(* updateUserProfile and saveConversation one await at a time: a call by  *)
(* one caller can run between any two awaits of a call by another.        *)

\* the arguments of the calls made concurrently
ConcUserIds == {ProgressId, UnknownId}
ConcDimensions == {"personality", "skills"}
ConcData == {"r1"}
ConcSessionIds == {<<>>}

\* a caller starts updateUserProfile(userId, dimension, data)
CallUpdate(p, userId, dimension, data) ==
    /\ procs[p].pc = "idle"
    /\ nWrites < MaxCalls
    /\ nWrites' = nWrites + 1
    /\ procs' = [procs EXCEPT ![p] =
                    [Idle EXCEPT !.pc = "readdir", !.op = "updateUserProfile",
                                 !.userId = userId, !.dimension = dimension,
                                 !.data = data]]
    /\ overlapped' = (overlapped \/ \E q \in Procs \ {p} : procs[q].pc # "idle")
    /\ UNCHANGED <<store, now, last, hist, expect>>

\* a caller starts saveConversation(userId, sessionId, conversation)
CallSave(p, userId, sessionId, conversation) ==
    /\ procs[p].pc = "idle"
    /\ nWrites < MaxCalls
    /\ nWrites' = nWrites + 1
    /\ procs' = [procs EXCEPT ![p] =
                    [Idle EXCEPT !.pc = "readdir", !.op = "saveConversation",
                                 !.userId = userId, !.sessionId = sessionId,
                                 !.conversation = <<conversation>>]]
    /\ overlapped' = (overlapped \/ \E q \in Procs \ {p} : procs[q].pc # "idle")
    /\ UNCHANGED <<store, now, last, hist, expect>>

\* the arguments of the call p is running, as `last` records them
CallArgs(c) ==
    IF c.op = "updateUserProfile"
    THEN <<c.userId, c.dimension, c.data>>
    ELSE <<c.userId, c.sessionId, c.conversation[1]>>

CallPrefix(c) ==
    IF c.op = "updateUserProfile"
    THEN "Failed to update user profile"
    ELSE "Failed to save conversation"

\* await fs.readdir(usersDir); find; throw 'User not found'
StepReaddir(p) ==
    LET c == procs[p]
        matches == MatchingDirs(store, c.userId)
    IN  /\ c.pc = "readdir"
        /\ IF matches = {}
           THEN /\ last' = Thrown(c.op, CallArgs(c), CallPrefix(c), UserNotFound)
                /\ procs' = [procs EXCEPT ![p] = Idle]
           ELSE /\ \E userDir \in matches :
                    procs' = [procs EXCEPT
                                ![p].userDir = userDir,
                                ![p].pc = IF c.op = "updateUserProfile"
                                          THEN "readProfile"
                                          ELSE "ensureDir"]
                /\ UNCHANGED last
        /\ UNCHANGED <<store, now, nWrites, hist, expect, overlapped>>

\* updateUserProfile: await fs.readJson(profilePath)
StepReadProfile(p) ==
    LET c == procs[p]
    IN  /\ c.pc = "readProfile"
        /\ IF store[c.userDir].profile = <<>>
           THEN /\ last' = Thrown(c.op, CallArgs(c), CallPrefix(c), NoSuchFile)
                /\ procs' = [procs EXCEPT ![p] = Idle]
           ELSE /\ procs' = [procs EXCEPT
                                ![p].buf = <<store[c.userDir].profile[1]>>,
                                ![p].pc = "writeProfile"]
                /\ UNCHANGED last
        /\ UNCHANGED <<store, now, nWrites, hist, expect, overlapped>>

\* updateUserProfile: assign, await fs.writeJson(profilePath, profile), return
StepWriteProfile(p) ==
    LET c == procs[p]
        profile == AssignDimension(c.buf[1], c.dimension, c.data, now)
    IN  /\ c.pc = "writeProfile"
        /\ store' = [store EXCEPT ![c.userDir].profile = <<WriteJson(profile)>>]
        /\ last' = Returned(c.op, CallArgs(c), profile)
        /\ expect' = Acknowledge(expect, c.userDir, c.dimension, c.data)
        /\ procs' = [procs EXCEPT ![p] = Idle]
        /\ UNCHANGED <<now, nWrites, hist, overlapped>>

\* saveConversation: await fs.ensureDir(sessionsDir)
StepEnsureDir(p) ==
    LET c == procs[p]
    IN  /\ c.pc = "ensureDir"
        /\ store' = [store EXCEPT ![c.userDir].hasSessions = TRUE]
        /\ procs' = [procs EXCEPT ![p].pc = "pathExists"]
        /\ UNCHANGED <<now, last, nWrites, hist, expect, overlapped>>

\* saveConversation: let sessionData = []; await fs.pathExists(sessionFile)
StepPathExists(p) ==
    LET c == procs[p]
    IN  /\ c.pc = "pathExists"
        /\ procs' = [procs EXCEPT
                        ![p].buf = <<<<>>>>,
                        ![p].pc =
                            IF SessionFile(c.sessionId) \in
                                    DOMAIN store[c.userDir].sessions
                            THEN "readSession"
                            ELSE "writeSession"]
        /\ UNCHANGED <<store, now, last, nWrites, hist, expect, overlapped>>

\* saveConversation: sessionData = await fs.readJson(sessionFile)
StepReadSession(p) ==
    LET c == procs[p]
    IN  /\ c.pc = "readSession"
        /\ procs' = [procs EXCEPT
                        ![p].buf = <<store[c.userDir].sessions[SessionFile(c.sessionId)]>>,
                        ![p].pc = "writeSession"]
        /\ UNCHANGED <<store, now, last, nWrites, hist, expect, overlapped>>

\* saveConversation: push, await fs.writeJson(sessionFile, sessionData), return
StepWriteSession(p) ==
    LET c == procs[p]
        sessionFile == SessionFile(c.sessionId)
        pushed == Push(c.buf[1], c.conversation[1])
    IN  /\ c.pc = "writeSession"
        /\ store' = [store EXCEPT
                        ![c.userDir].sessions =
                            (sessionFile :> pushed) @@ store[c.userDir].sessions]
        /\ last' = Returned(c.op, CallArgs(c), pushed)
        /\ hist' = Appended(hist, <<c.userDir, sessionFile>>, c.conversation[1])
        /\ procs' = [procs EXCEPT ![p] = Idle]
        /\ UNCHANGED <<now, nWrites, expect, overlapped>>

\* no chat request and no dashboard take part
still == UNCHANGED <<chat, user_profile, ui>>

NextConc ==
    \/ /\ store = <<>>
       /\ CreateUser(ProgressName, ProgressId)
       /\ UNCHANGED nWrites
       /\ idle
    \/ /\ \E p \in Procs, userId \in ConcUserIds, dimension \in ConcDimensions,
             data \in ConcData :
                CallUpdate(p, userId, dimension, data)
       /\ still
    \/ /\ \E p \in Procs, userId \in ConcUserIds, sessionId \in ConcSessionIds,
             message \in Messages :
                CallSave(p, userId, sessionId, Conversation(now, message))
       /\ still
    \/ /\ \E p \in Procs : StepReaddir(p)
       /\ still
    \/ /\ \E p \in Procs : StepReadProfile(p)
       /\ still
    \/ /\ \E p \in Procs : StepWriteProfile(p)
       /\ still
    \/ /\ \E p \in Procs : StepEnsureDir(p)
       /\ still
    \/ /\ \E p \in Procs : StepPathExists(p)
       /\ still
    \/ /\ \E p \in Procs : StepReadSession(p)
       /\ still
    \/ /\ \E p \in Procs : StepWriteSession(p)
       /\ still

SpecConc == Init /\ [][NextConc]_vars

-----------------------------------------------------------------------------
(* Properties of the store under Spec *)

\* the profile record stored in directory d
StoredProfile(d) == store[d].profile[1]

\* the directories whose stored record carries the id userId
DirsOfId(userId) ==
    {d \in DOMAIN store : store[d].profile # <<>> /\ StoredProfile(d).id = userId}

\* C1: when createUser has returned for a name that is not empty after
\* sanitization, the tree holds exactly one record with the returned id, its
\* dimension map has the 12 fixed keys, all null, and every outcome of a
\* following getUserContext(returned id) is a success returning that record.
C1_CreateThenGet ==
    (last.op = "createUser" /\ Sanitize(last.args[1]) # <<>>) =>
        LET userId == last.ret[1].userId
        IN  /\ Cardinality(DirsOfId(userId)) = 1
            /\ \A d \in DirsOfId(userId) :
                /\ DOMAIN StoredProfile(d).profile = DimensionKeys
                /\ \A k \in DimensionKeys : StoredProfile(d).profile[k] = Null
                /\ StoredProfile(d).name = last.ret[1].name
                /\ GetUserContextOutcomes(store, userId) =
                      {Returned("getUserContext", <<userId>>, StoredProfile(d))}

\* C1 witness: createUser has returned for a sanitizable name while another
\* user, registered under the same name, is already stored.
C1_Witness ==
    /\ last.op = "createUser"
    /\ Sanitize(last.args[1]) # <<>>
    /\ Cardinality(DOMAIN store) = 2
    /\ \A d \in DOMAIN store : StoredProfile(d).name = last.ret[1].name

\* C2 (as claimed): every step, calls of updateUserProfile being made with
\* the id of a stored profile, leaves each stored profile with exactly the 12
\* keys it was created with, and a slot that is non-null does not become null.
C2_KeysFixedNeverBackToNull ==
    [][(last'.op = "updateUserProfile" => DirsOfId(last'.args[1]) # {}) =>
          \A d \in DOMAIN store' :
              /\ DOMAIN store'[d].profile[1].profile = DimensionKeys
              /\ d \in DOMAIN store =>
                    \A k \in DimensionKeys :
                        StoredProfile(d).profile[k] # Null =>
                            store'[d].profile[1].profile[k] # Null]_vars

\* C3 (as claimed): a successful updateUserProfile(id, k, r2) on a slot k of
\* profile id that already holds a result leaves that slot as it was.
C3_WriteOnce ==
    [][\A d \in DOMAIN store :
          (/\ last'.op = "updateUserProfile"
           /\ last'.ok
           /\ StoredProfile(d).id = last'.args[1]
           /\ last'.args[3] # Null
           /\ last'.args[2] \in DimensionKeys
           /\ StoredProfile(d).profile[last'.args[2]] # Null) =>
                store'[d].profile[1].profile[last'.args[2]] =
                    StoredProfile(d).profile[last'.args[2]]]_vars

\* C4: each session file holds exactly the turns appended to it, in the order
\* of the calls, and getUserData returns every session of the user with that
\* same sequence of turns.
C4_AppendOnlyInOrder ==
    /\ \A d \in DOMAIN store :
          \A f \in DOMAIN store[d].sessions :
              /\ <<d, f>> \in DOMAIN hist
              /\ store[d].sessions[f] = hist[<<d, f>>]
    /\ \A key \in DOMAIN hist :
          /\ key[1] \in DOMAIN store
          /\ key[2] \in DOMAIN store[key[1]].sessions
    /\ (last.op = "getUserData" /\ last.ok) =>
          LET d == last.ret[1].folderPath
              sessions == last.ret[1].sessions
          IN  /\ Len(sessions) = Cardinality(DOMAIN store[d].sessions)
              /\ \A f \in DOMAIN store[d].sessions :
                    \E i \in DOMAIN sessions :
                        /\ sessions[i].sessionId = SessionLabel(f)
                        /\ sessions[i].data = hist[<<d, f>>]

\* C4 witness: getUserData has returned a session holding two different
\* turns.
C4_Witness ==
    /\ last.op = "getUserData"
    /\ last.ok
    /\ \E i \in DOMAIN last.ret[1].sessions :
          LET data == last.ret[1].sessions[i].data
          IN  Len(data) >= 2 /\ data[1] # data[2]

\* C6 (as claimed): getUserContext called with an id that is the id of no
\* stored profile fails with "User not found".
C6_UnknownIdNotFound ==
    (last.op = "getUserContext" /\ DirsOfId(last.args[1]) = {}) =>
        (~last.ok /\ last.err[2] = UserNotFound)

\* no directory name contains userId
Unresolved(st, userId) == \A d \in DOMAIN st : ~Includes(d, userId)

\* C7: updateUserProfile, saveConversation and getUserData called with an id
\* that no directory name contains fail with "User not found" and leave the
\* whole tree as it was.
C7_UnresolvedIdChangesNothing ==
    [][(/\ last'.op \in {"updateUserProfile", "saveConversation", "getUserData"}
        /\ Unresolved(store, last'.args[1])) =>
            (/\ ~last'.ok
             /\ last'.err[2] = UserNotFound
             /\ store' = store)]_vars

\* C7 witness: saveConversation has failed on an unknown id while users are
\* stored, and no sessions directory exists.
C7_Witness ==
    /\ last.op = "saveConversation"
    /\ ~last.ok
    /\ Cardinality(DOMAIN store) = 2
    /\ \A d \in DOMAIN store : ~store[d].hasSessions

\* C8 (as claimed): updateUserProfile on a stored id with a dimension outside the 12 fixed
\* keys fails and the stored profiles keep their 12 keys.
C8_UnknownDimensionRejected ==
    (/\ last.op = "updateUserProfile"
     /\ DirsOfId(last.args[1]) # {}
     /\ last.args[2] \notin DimensionKeys) =>
        (/\ ~last.ok
         /\ \A d \in DOMAIN store :
                DOMAIN StoredProfile(d).profile = DimensionKeys)

\* C9 (as claimed): createUser, directly or through POST /api/register-user,
\* fails for a name that is empty after sanitization, and no record with an
\* empty name is stored.
C9_EmptyNameRejected ==
    /\ (/\ last.op \in {"createUser", "POST /api/register-user"}
        /\ Sanitize(last.args[1]) = <<>>) => ~last.ok
    /\ \A d \in DOMAIN store : StoredProfile(d).name # <<>>

-----------------------------------------------------------------------------
(* Properties of overlapping calls under SpecConc *)

\* every acknowledged dimension write and every acknowledged append is stored
NothingLost ==
    /\ \A d \in DOMAIN expect :
          \A k \in DOMAIN expect[d] : StoredProfile(d).profile[k] = expect[d][k]
    /\ \A key \in DOMAIN hist :
          /\ key[2] \in DOMAIN store[key[1]].sessions
          /\ store[key[1]].sessions[key[2]] = hist[key]

\* C5: the store loses an acknowledged write only when calls have
\* overlapped: as long as every call started with no other call in flight,
\* all acknowledged dimension writes and appended turns are stored; the
\* witness is the interleaving in which they are not.
C5_LostOnlyWhenOverlapping == ~overlapped => NothingLost

\* C5 witness: all calls have returned; two updateUserProfile calls for two
\* different keys were acknowledged and only one of the results is stored,
\* and two saveConversation calls on one session were acknowledged and the
\* session file holds one turn.
C5_Witness ==
    /\ \A p \in Procs : procs[p].pc = "idle"
    /\ \E d \in DOMAIN expect :
          /\ \E k1, k2 \in DimensionKeys :
                /\ k1 # k2
                /\ expect[d][k1] # Null
                /\ expect[d][k2] # Null
                /\ StoredProfile(d).profile[k1] = expect[d][k1]
                /\ StoredProfile(d).profile[k2] = Null
          /\ \E f \in DOMAIN store[d].sessions :
                /\ Len(hist[<<d, f>>]) = 2
                /\ Len(store[d].sessions[f]) = 1

-----------------------------------------------------------------------------
(* Properties of the progress arithmetic under SpecProgress *)

-----------------------------------------------------------------------------
(* Further properties of the store under Spec *)

\* C11 (as claimed): every successful updateUserProfile made with the id of a
\* stored profile leaves the percentage computed from that stored profile at
\* or above the percentage computed from it before the call.
C11_PercentageNeverDecreases ==
    [][\A d \in DOMAIN store :
          (/\ last'.op = "updateUserProfile"
           /\ last'.ok
           /\ StoredProfile(d).id = last'.args[1]) =>
                CalculateProfileCompleteness(store'[d].profile[1].profile) >=
                    CalculateProfileCompleteness(StoredProfile(d).profile)]_vars

-----------------------------------------------------------------------------
(* The options the master agent offers on the dashboard                    *)
(* (get_assessment_progress and get_next_options).  An option is told by   *)
(* its "agent" entry; its title is derived from that entry alone.          *)

\* all_dimensions, in the order of the list
all_dimensions ==
    <<"personality", "interests", "aspirations", "skills",
      "motivations_values", "cognitive_abilities", "learning_preferences",
      "physical_context", "strengths_weaknesses", "emotional_intelligence",
      "track_record", "constraints">>

\* round(num / den * 100, 1) in tenths of a percent: the nearest tenth, a tie
\* going to the even one
PyRoundTenths(num, den) ==
    LET q == (2000 * num + den) \div (2 * den)
        tie == (2000 * num + den) % (2 * den) = 0
    IN  IF tie /\ q % 2 = 1 THEN q - 1 ELSE q

\* assessments.get(dim, {}).get('completed', False)
IsCompleted(assessments, dim) ==
    dim \in DOMAIN assessments /\ assessments[dim].completed

get_assessment_progress(profile) ==
    LET assessments == profile.assessments
        done(dim) == IsCompleted(assessments, dim)
        completed == SelectSeq(all_dimensions, done)
        open(dim) == \A i \in DOMAIN completed : completed[i] # dim
        remaining == SelectSeq(all_dimensions, open)
    IN  [completed |-> completed,
         remaining |-> remaining,
         progress_percentage |->
            PyRoundTenths(Len(completed), Len(all_dimensions))]

get_next_options(profile) ==
    LET progress == get_assessment_progress(profile)
        assessments == [i \in DOMAIN progress.remaining |->
                            [agent |-> progress.remaining[i]]]
    IN  IF Len(progress.completed) >= 8
        THEN <<[agent |-> "action_plan"]>>
        ELSE IF Len(progress.completed) >= 3
             THEN Append(assessments, [agent |-> "insights"])
             ELSE assessments

\* an assessment is completed and stored in the profile
StoreAssessment(dim) ==
    /\ user_profile' =
          [user_profile EXCEPT
              !.assessments = (dim :> [completed |-> TRUE]) @@ @]
    /\ last' = Returned("store_assessment", <<dim>>, [completed |-> TRUE])
    /\ UNCHANGED <<store, now, nWrites, hist, expect, procs, overlapped, chat,
                   ui>>

\* the dashboard asks for the options of the current profile
GetNextOptions ==
    /\ last' = Returned("get_next_options", <<>>, get_next_options(user_profile))
    /\ UNCHANGED <<store, now, nWrites, hist, expect, procs, overlapped, chat,
                   user_profile, ui>>

NextOptions ==
    \/ \E i \in DOMAIN all_dimensions : StoreAssessment(all_dimensions[i])
    \/ GetNextOptions

SpecOptions == Init /\ [][NextOptions]_vars

\* whether the options returned last hold one for the given agent
Offered(agent) == \E i \in DOMAIN last.ret[1] : last.ret[1][i].agent = agent

\* the number of completed assessments of the profile
CompletedAssessments ==
    Cardinality({i \in DOMAIN all_dimensions :
                    IsCompleted(user_profile.assessments, all_dimensions[i])})

\* C12 (as claimed): the options returned for a profile with c completed
\* assessments hold the insights option exactly when c >= 3 and the action
\* plan option exactly when c >= 8.
C12_MilestoneThresholds ==
    last.op = "get_next_options" =>
        /\ Offered("insights") <=> CompletedAssessments >= 3
        /\ Offered("action_plan") <=> CompletedAssessments >= 8

\* the assessments of the profile that are not completed, in list order
RemainingInOrder ==
    LET open(dim) == ~IsCompleted(user_profile.assessments, dim)
    IN  SelectSeq(all_dimensions, open)

\* C13 (as claimed): the options returned are one option for each remaining
\* assessment in the order of the list, then the insights option when at
\* least 3 are completed, then the action plan option when at least 8 are
\* (six options for 8 completed).
C13_RemainingThenMilestones ==
    last.op = "get_next_options" =>
        last.ret[1] =
            [i \in DOMAIN RemainingInOrder |-> [agent |-> RemainingInOrder[i]]]
            \o (IF CompletedAssessments >= 3
                THEN <<[agent |-> "insights"]>> ELSE <<>>)
            \o (IF CompletedAssessments >= 8
                THEN <<[agent |-> "action_plan"]>> ELSE <<>>)

-----------------------------------------------------------------------------
(* Two users: createUser, updateUserProfile and saveConversation one await *)
(* at a time, the calls of one user running between the awaits of the      *)
(* calls of the other; GET /api/user/:userId reads the tree in between.    *)

\* names as typed by the two users; both are stored as "a"
UserNames == {ProgressName, <<"a">>}
UsersDimensions == {"personality"}
UsersMessages == {"m1"}

\* the ids uuidv4() has returned so far, stored or still being stored
IdsTaken ==
    UsedIds(store) \cup {procs[q].userId : q \in {x \in Procs : procs[x].op = "createUser"}}

\* a caller starts createUser(name): uuidv4, sanitize, path.join
CallCreate(p, name, userId) ==
    /\ procs[p].pc = "idle"
    /\ procs' = [procs EXCEPT ![p] =
                    [Idle EXCEPT !.pc = "createDir", !.op = "createUser",
                                 !.userId = userId,
                                 !.userDir = UserDirName(Sanitize(name), userId),
                                 !.buf = <<name>>]]
    /\ overlapped' = (overlapped \/ \E q \in Procs \ {p} : procs[q].pc # "idle")
    /\ UNCHANGED <<store, now, last, nWrites, hist, expect>>

\* createUser: await fs.ensureDir(userDir)
StepEnsureUserDir(p) ==
    LET c == procs[p]
    IN  /\ c.pc = "createDir"
        /\ store' = IF c.userDir \in DOMAIN store
                    THEN store
                    ELSE (c.userDir :> [profile |-> <<>>,
                                        hasSessions |-> FALSE,
                                        sessions |-> <<>>]) @@ store
        /\ procs' = [procs EXCEPT ![p].pc = "writeUser"]
        /\ UNCHANGED <<now, last, nWrites, hist, expect, overlapped>>

\* createUser: build userData, await fs.writeJson(profile.json), return
StepWriteUser(p) ==
    LET c == procs[p]
        sanitizedName == Sanitize(c.buf[1])
        userData == NewUserData(c.userId, sanitizedName, now)
    IN  /\ c.pc = "writeUser"
        /\ store' = [store EXCEPT ![c.userDir].profile = <<WriteJson(userData)>>]
        /\ last' = Returned("createUser", <<c.buf[1]>>,
                            [userId |-> c.userId, name |-> sanitizedName])
        /\ expect' = (c.userDir :> [k \in DimensionKeys |-> Null]) @@ expect
        /\ procs' = [procs EXCEPT ![p] = Idle]
        /\ UNCHANGED <<now, nWrites, hist, overlapped>>

\* every outcome getUserData(userId) can have on the tree st
GetUserDataOutcomes(st, userId) ==
    LET matches == MatchingDirs(st, userId)
        args == <<userId>>
        prefix == "Failed to get user data"
    IN  IF matches = {}
        THEN {Thrown("getUserData", args, prefix, UserNotFound)}
        ELSE UNION {IF st[userDir].profile = <<>>
                    THEN {Thrown("getUserData", args, prefix, NoSuchFile)}
                    ELSE {Returned("getUserData", args,
                                   [profile |-> st[userDir].profile[1],
                                    sessions |-> sessions,
                                    folderPath |-> userDir]) :
                            sessions \in ReadSessions(st[userDir])} :
                      userDir \in matches}

\* GET /api/user/:userId; err keeps the error the handler logs
GetUserRoute(userId) ==
    /\ \E outcome \in GetUserDataOutcomes(store, userId) :
          last' = IF outcome.ok
                  THEN Responded("GET /api/user/:userId", <<userId>>, 200,
                                 outcome.ret[1])
                  ELSE [Responded("GET /api/user/:userId", <<userId>>, 500,
                                  [error |-> "User not found"])
                            EXCEPT !.err = outcome.err]
    /\ UNCHANGED <<store, now, hist, expect>>

NextUsers ==
    \/ /\ \E p \in Procs, name \in UserNames, userId \in UUIDs \ IdsTaken :
                CallCreate(p, name, userId)
       /\ still
    \/ /\ \E p \in Procs, userId \in UsedIds(store),
             dimension \in UsersDimensions, data \in ConcData :
                CallUpdate(p, userId, dimension, data)
       /\ still
    \/ /\ \E p \in Procs, userId \in UsedIds(store),
             sessionId \in ConcSessionIds, message \in UsersMessages :
                CallSave(p, userId, sessionId, Conversation(now, message))
       /\ still
    \/ /\ \E p \in Procs : StepEnsureUserDir(p)
       /\ still
    \/ /\ \E p \in Procs : StepWriteUser(p)
       /\ still
    \/ /\ \E p \in Procs : StepReaddir(p)
       /\ still
    \/ /\ \E p \in Procs : StepReadProfile(p)
       /\ still
    \/ /\ \E p \in Procs : StepWriteProfile(p)
       /\ still
    \/ /\ \E p \in Procs : StepEnsureDir(p)
       /\ still
    \/ /\ \E p \in Procs : StepPathExists(p)
       /\ still
    \/ /\ \E p \in Procs : StepReadSession(p)
       /\ still
    \/ /\ \E p \in Procs : StepWriteSession(p)
       /\ still
    \/ /\ \E userId \in LookupIds : GetUserRoute(userId)
       /\ UNCHANGED nWrites
       /\ idle

SpecUsers == Init /\ [][NextUsers]_vars

\* the user whose call caller p is running in this step
ActingId(p) ==
    IF procs[p].pc = "idle" THEN procs'[p].userId ELSE procs[p].userId

\* what the tree st holds of the user with id userId
View(st, userId) ==
    [d \in {x \in DOMAIN st :
                st[x].profile # <<>> /\ st[x].profile[1].id = userId} |-> st[d]]

\* C14: a step of a createUser, updateUserProfile or saveConversation call
\* made for one user, whatever calls of the other user are in flight, leaves
\* the stored profile and the session files of every other user as they were.
C14_UsersIndependent ==
    [][\A p \in Procs, other \in UUIDs :
          (procs'[p] # procs[p] /\ ActingId(p) # other) =>
                View(store', other) = View(store, other)]_vars

\* C14 witness: two users stored under the same name after overlapping
\* calls; one has a result stored and no turn, the other a turn and no result.
C14_Witness ==
    /\ overlapped
    /\ \A p \in Procs : procs[p].pc = "idle"
    /\ \E d1, d2 \in DOMAIN store :
          /\ d1 # d2
          /\ store[d1].profile # <<>> /\ store[d2].profile # <<>>
          /\ StoredProfile(d1).name = StoredProfile(d2).name
          /\ StoredProfile(d1).profile["personality"] # Null
          /\ store[d1].sessions = <<>>
          /\ StoredProfile(d2).profile["personality"] = Null
          /\ store[d2].sessions # <<>>

-----------------------------------------------------------------------------
(* One user under a running clock: new Date() returns a later instant      *)
(* after every tick.                                                       *)

ClockDimensions == {"personality", "skills"}
ClockData == {"r1", "r2"}

\* time passes between two calls
Tick ==
    /\ now < MaxClock
    /\ now' = now + 1
    /\ UNCHANGED <<store, last, nWrites, hist, expect, procs, overlapped, chat,
                   user_profile, ui>>

NextClock ==
    \/ /\ store = <<>>
       /\ CreateUser(ProgressName, ProgressId)
       /\ UNCHANGED nWrites
       /\ idle
    \/ Tick
    \/ /\ nWrites < MaxWrites
       /\ \E dimension \in ClockDimensions, data \in ClockData :
            UpdateUserProfile(ProgressId, dimension, data)
       /\ nWrites' = nWrites + 1
       /\ idle
    \/ /\ nWrites < MaxWrites
       /\ \E sessionId \in SessionIds, message \in Messages :
            SaveConversation(ProgressId, sessionId, Conversation(now, message))
       /\ nWrites' = nWrites + 1
       /\ idle

SpecClock == Init /\ [][NextClock]_vars

\* C15: a successful updateUserProfile(id, k, r) sets updatedAt of the stored
\* profile to the time of the call and changes nothing else but slot k: id,
\* name, createdAt, the sessions entry and every other slot are as before,
\* no slot other than k appears or disappears, and the session files and
\* every other directory are untouched.
C15_OnlySlotAndUpdatedAt ==
    [][\A d \in DOMAIN store :
          (/\ nWrites' = nWrites + 1
           /\ last'.op = "updateUserProfile"
           /\ last'.ok
           /\ StoredProfile(d).id = last'.args[1]) =>
                LET old == StoredProfile(d)
                    new == store'[d].profile[1]
                    k == last'.args[2]
                IN  /\ new.updatedAt = <<now>>
                    /\ new.id = old.id
                    /\ new.name = old.name
                    /\ new.createdAt = old.createdAt
                    /\ new.sessions = old.sessions
                    /\ new.profile[k] = last'.args[3]
                    /\ DOMAIN new.profile = (DOMAIN old.profile) \cup {k}
                    /\ \A x \in (DOMAIN old.profile) \ {k} :
                            new.profile[x] = old.profile[x]
                    /\ store'[d].sessions = store[d].sessions
                    /\ store'[d].hasSessions = store[d].hasSessions
                    /\ \A e \in (DOMAIN store) \ {d} : store'[e] = store[e]
                    /\ DOMAIN store' = DOMAIN store]_vars

\* C15 witness: updateUserProfile has returned at a time after the profile
\* was created, on a profile where another slot already held a result;
\* updatedAt is the time of this call and the other slot still holds its
\* result.
C15_Witness ==
    /\ last.op = "updateUserProfile"
    /\ last.ok
    /\ now > 0
    /\ \E d \in DirsOfId(last.args[1]) :
          /\ StoredProfile(d).updatedAt = <<now>>
          /\ StoredProfile(d).createdAt < now
          /\ last.ret[1].updatedAt = <<now>>
          /\ \E k \in ClockDimensions \ {last.args[2]} :
                StoredProfile(d).profile[k] # Null

-----------------------------------------------------------------------------
(* Properties of the session files under Spec *)

\* C16: a successful saveConversation(id, sessionId, turn) leaves, in the
\* directory it resolved, the file named after sessionId ("default" when
\* sessionId is omitted) holding what it held before (nothing when it did
\* not exist) followed by the turn, and no other file changed; turns saved
\* without a sessionId thus accumulate in default.json.
C16_DefaultSessionCreatedOnDemand ==
    [][(/\ nWrites' = nWrites + 1
        /\ last'.op = "saveConversation"
        /\ last'.ok) =>
            \E d \in MatchingDirs(store, last'.args[1]) :
                LET name == IF last'.args[2] = <<>>
                            THEN <<"default">> ELSE last'.args[2]
                    file == name \o <<".json">>
                    before == IF file \in DOMAIN store[d].sessions
                              THEN store[d].sessions[file] ELSE <<>>
                IN  /\ DOMAIN store'[d].sessions =
                            (DOMAIN store[d].sessions) \cup {file}
                    /\ store'[d].sessions[file] = Append(before, last'.args[3])
                    /\ \A f \in (DOMAIN store[d].sessions) \ {file} :
                            store'[d].sessions[f] = store[d].sessions[f]
                    /\ store'[d].profile = store[d].profile
                    /\ \A e \in (DOMAIN store) \ {d} : store'[e] = store[e]]_vars

\* C16 witness: saveConversation without a sessionId has returned and
\* default.json, the only session file of the directory, holds two turns.
C16_Witness ==
    /\ last.op = "saveConversation"
    /\ last.ok
    /\ last.args[2] = <<>>
    /\ \E d \in DOMAIN store :
          /\ DOMAIN store[d].sessions = {<<"default", ".json">>}
          /\ Len(store[d].sessions[<<"default", ".json">>]) = 2
          /\ last.ret[1] = store[d].sessions[<<"default", ".json">>]

\* C17: a successful getUserData returns one entry for each session file of
\* the resolved directory that a turn was appended to, no two entries with
\* the same sessionId, each entry named after its file without the extension
\* and holding all the turns appended to it in order; for a user no turn was
\* ever appended for, it succeeds with an empty list.
C17_OneEntryPerSession ==
    (last.op = "getUserData" /\ last.ok) =>
        LET d == last.ret[1].folderPath
            sessions == last.ret[1].sessions
            files == {key[2] : key \in {x \in DOMAIN hist : x[1] = d}}
        IN  /\ Len(sessions) = Cardinality(files)
            /\ \A i, j \in DOMAIN sessions :
                    sessions[i].sessionId = sessions[j].sessionId => i = j
            /\ \A f \in files :
                    \E i \in DOMAIN sessions :
                        /\ sessions[i].sessionId = SubSeq(f, 1, Len(f) - 1)
                        /\ sessions[i].data = hist[<<d, f>>]
            /\ files = {} => sessions = <<>>

\* C17 witness: getUserData has returned two sessions, one of them the
\* default session.
C17_Witness ==
    /\ last.op = "getUserData"
    /\ last.ok
    /\ Len(last.ret[1].sessions) = 2
    /\ \E i \in DOMAIN last.ret[1].sessions :
          last.ret[1].sessions[i].sessionId = <<"default">>

-----------------------------------------------------------------------------
(* POST /api/chat and the master agent, one await at a time.  The language *)
(* model is outside the program: a call of generateContent throws or       *)
(* returns any text.                                                       *)

\* texts the language model returns: nothing, prose, and JSON documents
TextEmpty == ""
TextProse == "Sorry, I cannot help with that."
TextNull == "null"
TextMaster == "{\"agent\":\"master\",\"nextSteps\":\"n\"}"
TextPersonality == "{\"agent\":\"personality\"}"
TextNoSuchAgent == "{\"agent\":\"astrology\"}"
TextOngoing == "{\"message\":\"q\",\"assessmentData\":null,\"assessmentComplete\":false}"
TextComplete == "{\"message\":\"done\",\"assessmentData\":\"r1\",\"assessmentComplete\":true}"
TextName == "{\"requiresName\":false,\"extractedName\":\" a!\",\"response\":\"hi\"}"
TextNameOnly == "{\"extractedName\":\"a\"}"
TextNameUnsure == "{\"requiresName\":true,\"extractedName\":\"a\",\"response\":\"a?\"}"

Texts ==
    {TextEmpty, TextProse, TextNull, TextMaster, TextPersonality,
     TextNoSuchAgent, TextOngoing, TextComplete, TextName, TextNameOnly,
     TextNameUnsure}

\* what one call of model.generateContent can do
LLMOutcomes ==
    {[threw |-> TRUE, text |-> ""]} \cup {[threw |-> FALSE, text |-> t] : t \in Texts}

\* an object holding none of the properties the agents read
Blank ==
    [isNull |-> FALSE, agent |-> Undefined, nextSteps |-> Undefined,
     message |-> Undefined, assessmentData |-> Undefined,
     assessmentComplete |-> Undefined, requiresName |-> Undefined,
     extractedName |-> <<>>, response |-> Undefined]

\* JSON.parse(text): <<>> when it throws a SyntaxError, else the one value
JsonParse(text) ==
    CASE text = TextNull -> <<[Blank EXCEPT !.isNull = TRUE]>>
      [] text = TextMaster ->
            <<[Blank EXCEPT !.agent = "master", !.nextSteps = "n"]>>
      [] text = TextPersonality -> <<[Blank EXCEPT !.agent = "personality"]>>
      [] text = TextNoSuchAgent -> <<[Blank EXCEPT !.agent = "astrology"]>>
      [] text = TextOngoing ->
            <<[Blank EXCEPT !.message = "q", !.assessmentData = Null,
                            !.assessmentComplete = "false"]>>
      [] text = TextComplete ->
            <<[Blank EXCEPT !.message = "done", !.assessmentData = "r1",
                            !.assessmentComplete = "true"]>>
      [] text = TextName ->
            <<[Blank EXCEPT !.requiresName = "false",
                            !.extractedName = <<" ", "a", "!">>,
                            !.response = "hi"]>>
      [] text = TextNameOnly -> <<[Blank EXCEPT !.extractedName = <<"a">>]>>
      [] text = TextNameUnsure ->
            <<[Blank EXCEPT !.requiresName = "true",
                            !.extractedName = <<"a">>,
                            !.response = "a?"]>>
      [] OTHER -> <<>>

\* mutant: no value counts as false
NeverFalsy(v) == FALSE

\* the values JavaScript takes for false in a condition; an absent or empty
\* extractedName is the empty sequence
Falsy(v) == v \in {Undefined, Null, "false", ""}

\* a response object with no property set; JSON leaves such properties out
NoReply ==
    [response |-> Undefined, agent |-> Undefined, error |-> Undefined,
     nextSteps |-> Undefined, assessmentComplete |-> Undefined,
     nextDimension |-> Undefined, profileStatus |-> <<>>,
     requiresRegistration |-> Undefined, userId |-> <<>>]

\* the object the catch of processMessage returns
ProcessMessageFallback ==
    [NoReply EXCEPT
        !.response = "I apologize, but I encountered an issue processing your message.",
        !.agent = "master", !.error = "true"]

\* the object the catch of handleMasterResponse returns
MasterFallback ==
    [NoReply EXCEPT
        !.response = "I understand you're here to explore your career path.",
        !.agent = "master", !.error = "true"]

\* the object the catch of routeToSpecializedAgent returns
SpecializedFallback ==
    [NoReply EXCEPT
        !.response = "I apologize for the technical difficulty.",
        !.agent = "master", !.error = "true"]

\* mutant: the catch of handleInitialInteraction reports a registration
InitialFallbackRegistered ==
    [NoReply EXCEPT
        !.response = "Hello! I'm Remiro AI, your career counsellor.",
        !.requiresRegistration = "false"]

\* the object the catch of handleInitialInteraction returns
InitialFallback ==
    [NoReply EXCEPT
        !.response = "Hello! I'm Remiro AI, your career counsellor.",
        !.requiresRegistration = "true"]

\* the object the catch of an agent's processInteraction returns
AgentFallback ==
    [Blank EXCEPT
        !.message = "I'd like to understand your personality traits",
        !.assessmentData = Null, !.assessmentComplete = "false"]

\* determineAgent: the parsed text, or the master decision from the catch
DetermineAgent(o) ==
    IF o.threw \/ JsonParse(o.text) = <<>>
    THEN [Blank EXCEPT !.agent = "master",
                       !.nextSteps = "Continue general conversation"]
    ELSE JsonParse(o.text)[1]

\* processInteraction of a specialized agent
ProcessInteraction(o) ==
    IF o.threw \/ JsonParse(o.text) = <<>>
    THEN AgentFallback
    ELSE JsonParse(o.text)[1]

\* handleMasterResponse: the text as it came, or the fallback from the catch
HandleMasterResponse(o, userContext, agentDecision) ==
    IF o.threw
    THEN MasterFallback
    ELSE [NoReply EXCEPT
            !.response = o.text,
            !.agent = "master",
            !.nextSteps = agentDecision.nextSteps,
            !.profileStatus =
                <<CalculateProfileCompleteness(userContext.profile)>>]

\* the object routeToSpecializedAgent returns; profileStatus is computed
\* from the context read before the agent ran
SpecializedReply(userContext, agentDecision, response) ==
    [NoReply EXCEPT
        !.response = response.message,
        !.agent = agentDecision.agent,
        !.assessmentComplete =
            IF Falsy(response.assessmentComplete)
            THEN "false" ELSE response.assessmentComplete,
        !.nextDimension = Null,
        !.profileStatus =
            <<CalculateProfileCompleteness(userContext.profile)>>]

\* the inputs of POST /api/chat; "" and <<>> are absent (falsy) fields
ChatMessages == {"", "m1"}
ChatUserIds == {<<>>, ProgressId, UnknownId}
ChatSessionIds == {<<>>, <<"s1">>}

ChatArgs == <<chat.message, chat.userId, chat.sessionId>>

untouched == UNCHANGED <<procs, overlapped, user_profile, ui>>

\* the request arrives: the two checks before the first await
ChatRequest(message, userId, sessionId) ==
    /\ chat.pc = "idle"
    /\ nWrites < MaxChats
    /\ nWrites' = nWrites + 1
    /\ IF message = ""
       THEN /\ last' = Responded("POST /api/chat", <<message, userId, sessionId>>,
                                 400, [error |-> "Message is required"])
            /\ chat' = [NoChat EXCEPT !.events = <<"respond">>]
       ELSE /\ chat' = [NoChat EXCEPT
                            !.pc = IF userId = <<>>
                                   THEN "handleInitialInteraction"
                                   ELSE "getUserContext",
                            !.message = message,
                            !.userId = userId,
                            !.sessionId = sessionId]
            /\ UNCHANGED last
    /\ UNCHANGED <<store, now, hist, expect>>
    /\ untouched

\* handleInitialInteraction: await generateContent, JSON.parse, the branch
ChatInitialInteraction(o) ==
    LET parsed == JsonParse(o.text)
        response == parsed[1]
        failed == o.threw \/ parsed = <<>> \/ response.isNull
    IN  /\ chat.pc = "handleInitialInteraction"
        /\ chat' =
            IF failed
            THEN [chat EXCEPT !.pc = "respond", !.reply = InitialFallback,
                              !.events = Append(@, "llm"), !.llm = Append(@, o)]
            ELSE IF Falsy(response.requiresName) /\ response.extractedName # <<>>
            THEN [chat EXCEPT !.pc = "createUser", !.response = <<response>>,
                              !.events = Append(@, "llm"), !.llm = Append(@, o)]
            ELSE [chat EXCEPT !.pc = "respond",
                              !.reply = [NoReply EXCEPT
                                            !.requiresRegistration = "true",
                                            !.response = response.response],
                              !.events = Append(@, "llm"), !.llm = Append(@, o)]
        /\ UNCHANGED <<store, now, last, nWrites, hist, expect>>
        /\ untouched

\* handleInitialInteraction: await createUser(extractedName), the welcome
ChatCreateUser(userId) ==
    /\ chat.pc = "createUser"
    /\ CreateUser(chat.response[1].extractedName, userId)
    /\ chat' = [chat EXCEPT
                    !.pc = "respond",
                    !.reply = [NoReply EXCEPT
                                !.requiresRegistration = "false",
                                !.userId = userId,
                                !.response = "Welcome"]]
    /\ UNCHANGED nWrites
    /\ untouched

\* await userManager.getUserContext(userId)
ChatGetUserContext ==
    /\ chat.pc = "getUserContext"
    /\ GetUserContext(chat.userId)
    /\ chat' = IF last'.ok
               THEN [chat EXCEPT !.pc = "determineAgent",
                                 !.userContext = last'.ret,
                                 !.events = Append(@, "read")]
               ELSE [chat EXCEPT !.pc = "fail"]
    /\ UNCHANGED nWrites
    /\ untouched

\* processMessage: await determineAgent, then the routing up to the next await
ChatDetermineAgent(o) ==
    LET agentDecision == DetermineAgent(o)
        seen == [chat EXCEPT !.agentDecision = <<agentDecision>>,
                             !.events = Append(@, "llm"), !.llm = Append(@, o)]
    IN  /\ chat.pc = "determineAgent"
        /\ chat' =
            IF agentDecision.isNull
            THEN [seen EXCEPT !.pc = "saveConversation",
                              !.reply = ProcessMessageFallback]
            ELSE IF agentDecision.agent = "master"
            THEN [seen EXCEPT !.pc = "handleMasterResponse"]
            ELSE IF agentDecision.agent \notin DimensionKeys
            THEN [seen EXCEPT !.pc = "saveConversation",
                              !.reply = SpecializedFallback]
            ELSE [seen EXCEPT !.pc = "processInteraction"]
        /\ UNCHANGED <<store, now, last, nWrites, hist, expect>>
        /\ untouched

\* handleMasterResponse: await generateContent, return
ChatMasterResponse(o) ==
    /\ chat.pc = "handleMasterResponse"
    /\ chat' = [chat EXCEPT
                    !.pc = "saveConversation",
                    !.reply = HandleMasterResponse(o, chat.userContext[1],
                                                   chat.agentDecision[1]),
                    !.events = Append(@, "llm"), !.llm = Append(@, o)]
    /\ UNCHANGED <<store, now, last, nWrites, hist, expect>>
    /\ untouched

\* routeToSpecializedAgent: await agent.processInteraction, the test of
\* response.assessmentData
ChatProcessInteraction(o) ==
    LET response == ProcessInteraction(o)
        seen == [chat EXCEPT !.response = <<response>>,
                             !.events = Append(@, "llm"), !.llm = Append(@, o)]
    IN  /\ chat.pc = "processInteraction"
        /\ chat' =
            IF response.isNull
            THEN [seen EXCEPT !.pc = "saveConversation",
                              !.reply = SpecializedFallback]
            ELSE IF ~Falsy(response.assessmentData)
            THEN [seen EXCEPT !.pc = "updateUserProfile"]
            ELSE [seen EXCEPT !.pc = "saveConversation",
                              !.reply = SpecializedReply(chat.userContext[1],
                                            chat.agentDecision[1], response)]
        /\ UNCHANGED <<store, now, last, nWrites, hist, expect>>
        /\ untouched

\* routeToSpecializedAgent: await updateUserProfile, return
ChatUpdateUserProfile ==
    /\ chat.pc = "updateUserProfile"
    /\ UpdateUserProfile(chat.userId, chat.agentDecision[1].agent,
                         chat.response[1].assessmentData)
    /\ chat' = IF last'.ok
               THEN [chat EXCEPT !.pc = "saveConversation",
                                 !.reply = SpecializedReply(chat.userContext[1],
                                            chat.agentDecision[1], chat.response[1]),
                                 !.events = Append(@, "persist")]
               ELSE [chat EXCEPT !.pc = "saveConversation",
                                 !.reply = SpecializedFallback]
    /\ UNCHANGED nWrites
    /\ untouched

\* mutant: the turn is not saved before the response goes out
ChatSkipSaveConversation ==
    /\ chat.pc = "saveConversation"
    /\ chat' = [chat EXCEPT !.pc = "respond"]
    /\ UNCHANGED <<store, now, last, nWrites, hist, expect>>
    /\ untouched

\* await userManager.saveConversation(userId, sessionId, {...})
ChatSaveConversation ==
    /\ chat.pc = "saveConversation"
    /\ SaveConversation(chat.userId, chat.sessionId,
                        [timestamp |-> now, userMessage |-> chat.message,
                         botResponse |-> chat.reply])
    /\ chat' = IF last'.ok
               THEN [chat EXCEPT !.pc = "respond", !.events = Append(@, "append")]
               ELSE [chat EXCEPT !.pc = "fail"]
    /\ UNCHANGED nWrites
    /\ untouched

\* the message of a file operation that rejects
IOError == "EIO: i/o error"

\* await userManager.saveConversation: a file operation of its try block
\* rejects before the session file is written, and the catch rethrows
ChatSaveConversationFails ==
    /\ chat.pc = "saveConversation"
    /\ last' = Thrown("saveConversation",
                      <<chat.userId, chat.sessionId,
                        [timestamp |-> now, userMessage |-> chat.message,
                         botResponse |-> chat.reply]>>,
                      "Failed to save conversation", IOError)
    /\ chat' = [chat EXCEPT !.pc = "fail"]
    /\ UNCHANGED <<store, now, nWrites, hist, expect>>
    /\ untouched

\* mutant: the client is sent the fallback object instead of the response
ChatRespondFallback ==
    /\ chat.pc = "respond"
    /\ last' = Responded("POST /api/chat", ChatArgs, 200, ProcessMessageFallback)
    /\ chat' = [NoChat EXCEPT !.events = Append(chat.events, "respond"),
                              !.llm = chat.llm]
    /\ UNCHANGED <<store, now, nWrites, hist, expect>>
    /\ untouched

\* res.json(response)
ChatRespond ==
    /\ chat.pc = "respond"
    /\ last' = Responded("POST /api/chat", ChatArgs, 200, chat.reply)
    /\ chat' = [NoChat EXCEPT !.events = Append(chat.events, "respond"),
                              !.llm = chat.llm]
    /\ UNCHANGED <<store, now, nWrites, hist, expect>>
    /\ untouched

\* catch: res.status(500).json({ error: 'Internal server error' })
ChatFail ==
    /\ chat.pc = "fail"
    /\ last' = [Responded("POST /api/chat", ChatArgs, 500,
                          [error |-> "Internal server error"])
                    EXCEPT !.err = last.err]
    /\ chat' = [NoChat EXCEPT !.events = Append(chat.events, "respond"),
                              !.llm = chat.llm]
    /\ UNCHANGED <<store, now, nWrites, hist, expect>>
    /\ untouched

NextChat ==
    \/ /\ store = <<>>
       /\ RegisterUser(ProgressName, ProgressId)
       /\ UNCHANGED nWrites
       /\ idle
    \/ \E message \in ChatMessages, userId \in ChatUserIds,
          sessionId \in ChatSessionIds :
            ChatRequest(message, userId, sessionId)
    \/ \E o \in LLMOutcomes : ChatInitialInteraction(o)
    \/ \E userId \in UUIDs \ UsedIds(store) : ChatCreateUser(userId)
    \/ ChatGetUserContext
    \/ \E o \in LLMOutcomes : ChatDetermineAgent(o)
    \/ \E o \in LLMOutcomes : ChatMasterResponse(o)
    \/ \E o \in LLMOutcomes : ChatProcessInteraction(o)
    \/ ChatUpdateUserProfile
    \/ ChatSaveConversation
    \/ ChatSaveConversationFails
    \/ ChatRespond
    \/ ChatFail

SpecChat == Init /\ [][NextChat]_vars

\* POST /api/chat has just answered a request that carried a message
ChatAnswered ==
    /\ last.op = "POST /api/chat"
    /\ chat.pc = "idle"
    /\ last.args[1] # ""

\* the place of an event in the order read, llm, persist, append, respond
Rank(event) ==
    CASE event = "read" -> 1
      [] event = "llm" -> 2
      [] event = "persist" -> 3
      [] event = "append" -> 4
      [] event = "respond" -> 5

\* the events of one request: one read first, then the language model at
\* least once, then at most one persist, then one append, then the response
ReadModelPersistAppendRespond(events) ==
    /\ \A i, j \in DOMAIN events : i < j => Rank(events[i]) <= Rank(events[j])
    /\ \A e \in {"read", "append", "respond"} :
            Cardinality({i \in DOMAIN events : events[i] = e}) = 1
    /\ Cardinality({i \in DOMAIN events : events[i] = "persist"}) <= 1
    /\ \E i \in DOMAIN events : events[i] = "llm"

\* C18 (as claimed): whenever POST /api/chat answers a request that carried
\* a message, the request has read the profile, then obtained the language
\* model's result, then persisted the dimension result if there was one,
\* then appended the turn, and only then answered.
C18_EveryTurnAppendedBeforeResponse ==
    ChatAnswered => ReadModelPersistAppendRespond(chat.events)

\* C18 (amended): whenever POST /api/chat answers with success a request
\* that carried a message and a userId, the request has read the profile,
\* then obtained the language model's result, then persisted the dimension
\* result if there was one, then appended the turn, and only then answered;
\* a request without userId is answered from handleInitialInteraction, and a
\* failed one with status 500, with no turn appended.
C18_LoggedTurnOrder ==
    /\ (ChatAnswered /\ last.ok /\ last.args[2] # <<>>) =>
            ReadModelPersistAppendRespond(chat.events)
    /\ (ChatAnswered /\ (~last.ok \/ last.args[2] = <<>>)) =>
            \A i \in DOMAIN chat.events : chat.events[i] # "append"

\* C18 witness: a request has been answered after the profile was read, two
\* calls of the language model, the dimension result persisted and the turn
\* appended.
C18_Witness ==
    /\ ChatAnswered
    /\ last.ok
    /\ chat.events = <<"read", "llm", "llm", "persist", "append", "respond">>
    /\ \E d \in DirsOfId(last.args[2]) :
          /\ StoredProfile(d).profile["personality"] = "r1"
          /\ \E f \in DOMAIN store[d].sessions :
                store[d].sessions[f][Len(store[d].sessions[f])].botResponse =
                    last.ret[1].body

\* C20 (as claimed): when POST /api/chat has answered a request with a
\* message and the id of a stored user, whose profile it has read, no file
\* operation has rejected, and every call of the language model made for it
\* threw or returned text that JSON.parse rejects, the answer is a success
\* whose response text is present and not empty, and the turn was appended.
C20_ChatSurvivesModelFailure ==
    (/\ ChatAnswered
     /\ DirsOfId(last.args[2]) # {}
     /\ \E i \in DOMAIN chat.events : chat.events[i] = "read"
     /\ last.err = <<>>
     /\ \A i \in DOMAIN chat.llm :
            chat.llm[i].threw \/ JsonParse(chat.llm[i].text) = <<>>) =>
        /\ last.ok
        /\ last.ret[1].body.response \notin {Undefined, ""}
        /\ \E i \in DOMAIN chat.events : chat.events[i] = "append"

-----------------------------------------------------------------------------
(* Properties of the failures under SpecUsers *)

\* C19 (as claimed): a failure of GET /api/user/:userId that is not the
\* failure to find the user is answered differently from 'User not found',
\* so that the caller can tell a read failure from an unknown id.
C19_ReadFailureToldApart ==
    (/\ last.op = "GET /api/user/:userId"
     /\ ~last.ok
     /\ last.err[2] # UserNotFound) =>
        last.ret[1].body # [error |-> "User not found"]

-----------------------------------------------------------------------------
(* Properties of the conversation log under SpecChat *)

\* every turn of every session file of the tree, with its place
TurnsStored(st) ==
    UNION {UNION {{<<d, f, i, st[d].sessions[f][i]>> :
                        i \in DOMAIN st[d].sessions[f]} :
                    f \in DOMAIN st[d].sessions} :
            d \in DOMAIN st}

\* the number of "append" events of a request
Appends(events) == Cardinality({i \in DOMAIN events : events[i] = "append"})

\* C21: a step of the chat route leaves every stored turn in place and adds
\* one turn exactly when saveConversation returns; when POST /api/chat
\* answers with success a request that carried a userId, the request has
\* appended exactly one turn, the last one of the session file of that user
\* it names, holding the request's message and the response object sent to
\* the client; when it answers with a failure the request has appended none.
C21_OneTurnPerSuccessfulChat ==
    [][/\ TurnsStored(store) \subseteq TurnsStored(store')
       /\ Cardinality(TurnsStored(store')) =
            Cardinality(TurnsStored(store)) +
            (IF chat.pc = "saveConversation" /\ chat'.pc = "respond"
             THEN 1 ELSE 0)
       /\ (chat.pc \in {"respond", "fail"} /\ chat'.pc = "idle") =>
            IF last'.ok /\ chat.userId # <<>>
            THEN /\ Appends(chat'.events) = 1
                 /\ \E d \in MatchingDirs(store', chat.userId) :
                        LET f == SessionFile(chat.sessionId)
                        IN  /\ f \in DOMAIN store'[d].sessions
                            /\ LET data == store'[d].sessions[f]
                               IN  /\ data[Len(data)].userMessage = chat.message
                                   /\ data[Len(data)].botResponse =
                                        last'.ret[1].body
            ELSE Appends(chat'.events) = 0]_vars

\* C21 witness: the second request of a user has been answered with success
\* by the personality agent, and its turn is the second of the session file
\* it names and holds the response sent, which differs from the first.
C21_Witness ==
    /\ ChatAnswered
    /\ last.ok
    /\ last.args[2] = ProgressId
    /\ last.ret[1].body.agent = "personality"
    /\ \E d \in DirsOfId(ProgressId) :
          /\ SessionFile(last.args[3]) \in DOMAIN store[d].sessions
          /\ LET data == store[d].sessions[SessionFile(last.args[3])]
             IN  /\ Len(data) = 2
                 /\ data[2].userMessage = last.args[1]
                 /\ data[2].botResponse = last.ret[1].body
                 /\ data[1].botResponse # data[2].botResponse

\* the dimension map stored in directory d
Dimensions(st, d) == st[d].profile[1].profile

\* C22: a step of the chat route changes the dimension map of a stored user
\* only when it is the updateUserProfile of a turn whose decision names one
\* of the 12 agents and whose agent returned assessmentData that is not
\* null, from text the language model returned and JSON.parse accepted; the
\* step then writes that value in that agent's slot and no other.  In every
\* step the map keeps its 12 keys and no slot that holds a value is set to
\* null.
C22_ChatWritesOnlyAssessedSlot ==
    [][\A d \in DOMAIN store :
        store[d].profile # <<>> =>
            /\ store'[d].profile # <<>>
            /\ DOMAIN Dimensions(store', d) = DimensionKeys
            /\ \A k \in DimensionKeys :
                    Dimensions(store, d)[k] # Null =>
                        Dimensions(store', d)[k] # Null
            /\ Dimensions(store', d) # Dimensions(store, d) =>
                    LET agent == chat.agentDecision[1].agent
                        response == chat.response[1]
                        o == chat.llm[Len(chat.llm)]
                    IN  /\ chat.pc = "updateUserProfile"
                        /\ agent \in DimensionKeys
                        /\ response.assessmentData \notin {Null, Undefined}
                        /\ ~o.threw
                        /\ JsonParse(o.text) = <<response>>
                        /\ Dimensions(store', d) =
                            [Dimensions(store, d) EXCEPT
                                ![agent] = response.assessmentData]]_vars

\* C22 witness: updateUserProfile has just written the personality slot of
\* the user of the request in flight, whose other slots are null.
C22_Witness ==
    /\ chat.pc = "saveConversation"
    /\ chat.events = <<"read", "llm", "llm", "persist">>
    /\ chat.agentDecision[1].agent = "personality"
    /\ \E d \in DirsOfId(chat.userId) :
          /\ chat.userContext[1].profile["personality"] = Null
          /\ Dimensions(store, d)["personality"] = chat.response[1].assessmentData
          /\ \A k \in DimensionKeys \ {"personality"} :
                Dimensions(store, d)[k] = Null

\* C23: the step in which POST /api/chat takes a request without a message,
\* or with an empty one, answers it with status 400 and 'Message is
\* required' and ends the request: the tree and the history of appends are
\* as before, no call of the language model was made, and no step of the
\* request follows; a request with a message is not answered in that step.
C23_EmptyMessageRejectedFirst ==
    [][(chat.pc = "idle" /\ nWrites' = nWrites + 1) =>
            IF chat'.pc = "idle"
            THEN /\ last'.op = "POST /api/chat"
                 /\ last'.args[1] = ""
                 /\ ~last'.ok
                 /\ last'.ret = <<[status |-> 400,
                                   body |-> [error |-> "Message is required"]]>>
                 /\ store' = store
                 /\ hist' = hist
                 /\ chat'.llm = <<>>
                 /\ chat'.events = <<"respond">>
                 /\ chat'.userContext = <<>>
            ELSE /\ chat'.message # ""
                 /\ last' = last]_vars

\* C23 witness: a request without a message, naming a stored user who has a
\* turn logged, has been answered 400.
C23_Witness ==
    /\ last.op = "POST /api/chat"
    /\ last.args[1] = ""
    /\ last.args[2] = ProgressId
    /\ last.ret[1].status = 400
    /\ chat.pc = "idle"
    /\ \E d \in DirsOfId(ProgressId) : Cardinality(TurnsStored(store)) = 1

-----------------------------------------------------------------------------
(* Properties of the registration by chat under SpecChat *)

\* the name-extraction response says requiresName is false and carries a
\* name that is not empty
SaysNameFound(o) ==
    /\ ~o.threw
    /\ JsonParse(o.text) # <<>>
    /\ ~JsonParse(o.text)[1].isNull
    /\ JsonParse(o.text)[1].requiresName = "false"
    /\ JsonParse(o.text)[1].extractedName # <<>>

\* the name-extraction response carries a name that is not empty and its
\* requiresName is false, null or absent
CarriesName(o) ==
    /\ ~o.threw
    /\ JsonParse(o.text) # <<>>
    /\ ~JsonParse(o.text)[1].isNull
    /\ Falsy(JsonParse(o.text)[1].requiresName)
    /\ JsonParse(o.text)[1].extractedName # <<>>

\* a step of a request without userId, for a set found of outcomes of the
\* name-extraction call: the tree changes only by the creation of one user,
\* made only after an outcome in found; no turn is logged; the answer
\* carries the id of a stored user and requiresRegistration false after an
\* outcome in found, and requiresRegistration true and no id otherwise
RegistrationStep(found) ==
    (chat.pc # "idle" /\ chat.userId = <<>> /\ chat' # chat) =>
        /\ TurnsStored(store') = TurnsStored(store)
        /\ hist' = hist
        /\ store' # store =>
            /\ chat.pc = "createUser"
            /\ chat.llm[1] \in found
            /\ Cardinality(DOMAIN store') = Cardinality(DOMAIN store) + 1
            /\ \A d \in DOMAIN store : store'[d] = store[d]
            /\ \E d \in DOMAIN store' \ DOMAIN store :
                    /\ store'[d].profile # <<>>
                    /\ store'[d].profile[1].id = chat'.reply.userId
        /\ chat'.pc = "idle" =>
            /\ Len(chat.llm) = 1
            /\ last'.ok
            /\ Appends(chat'.events) = 0
            /\ IF chat.llm[1] \in found
               THEN /\ last'.ret[1].body.requiresRegistration = "false"
                    /\ DirsOfId(last'.ret[1].body.userId) # {}
               ELSE /\ last'.ret[1].body.requiresRegistration = "true"
                    /\ last'.ret[1].body.userId = <<>>

-----------------------------------------------------------------------------
(* Properties of the summary under Spec *)

\* C25 (as claimed): in a returned summary the assessed dimensions and the
\* dimensions of the 'Complete <dimension> assessment' recommendations
\* are disjoint, together they are the keys of the profile the summary was
\* read from, their sizes sum to 12, and the 'Profile complete'
\* recommendation is there if and only if 12 dimensions are assessed.
C25_SummaryPartitionsTwelveKeys ==
    (last.op = "getUserSummary" /\ last.ok) =>
        LET assessed == last.ret[1].dimensionsAssessed
            pending == last.ret[1].recommendations.complete
        IN  /\ assessed \cap pending = {}
            /\ \E d \in MatchingDirs(store, last.args[1]) :
                    /\ store[d].profile # <<>>
                    /\ assessed \cup pending = DOMAIN Dimensions(store, d)
            /\ Cardinality(assessed) + Cardinality(pending) = 12
            /\ last.ret[1].recommendations.profileComplete <=>
                    Cardinality(assessed) = 12

-----------------------------------------------------------------------------
(* Properties of the chat responses under SpecChat *)

\* C26 (as claimed): when POST /api/chat answers a request with status 500,
\* the request has appended no turn and the dimension map of the user it
\* names is the one it read at its start.
C26_ErrorLeavesStoreUnchanged ==
    [][(chat.pc = "fail" /\ chat'.pc = "idle") =>
            /\ last'.ret[1].status = 500
            /\ Appends(chat.events) = 0
            /\ chat.userContext # <<>> =>
                    \A d \in DirsOfId(chat.userId) :
                        Dimensions(store', d) = chat.userContext[1].profile]_vars

\* C27 (as claimed): when POST /api/chat has answered with a response that
\* carries profileStatus, that percentage is the completeness of the profile
\* stored for the user of the request.
C27_ProfileStatusIsCurrent ==
    (/\ ChatAnswered
     /\ last.ok
     /\ last.ret[1].body.profileStatus # <<>>) =>
        \A d \in DirsOfId(last.args[2]) :
            last.ret[1].body.profileStatus[1] =
                CalculateProfileCompleteness(Dimensions(store, d))

-----------------------------------------------------------------------------
(* Properties of the conversation summary under Spec *)

\* the turns of the session files of directory d
TurnsOf(st, d) == {t \in TurnsStored(st) : t[1] = d}

\* C30: every session file of the tree holds at least one turn; a
\* getUserSummary whose id matches a directory returns, and for a directory
\* it matches its totalSessions is the number of session files,
\* its totalMessages the number of turns of those files, and its
\* lastActivity the timestamp of the last turn of one of them, absent
\* exactly when there is no session file.
C30_SummaryOverNonEmptySessions ==
    /\ \A d \in DOMAIN store : \A f \in DOMAIN store[d].sessions :
            store[d].sessions[f] # <<>>
    /\ (last.op = "getUserSummary" /\ MatchingDirs(store, last.args[1]) # {}) =>
            /\ last.ok
            /\ ~last.ret[1].conversationSummary.threw
            /\ \E d \in MatchingDirs(store, last.args[1]) :
                LET files == store[d].sessions
                    summary == last.ret[1].conversationSummary
                IN  /\ last.ret[1].user.totalSessions = Cardinality(DOMAIN files)
                    /\ summary.totalMessages = Cardinality(TurnsOf(store, d))
                    /\ summary.lastActivity = <<>> <=> DOMAIN files = {}
                    /\ summary.lastActivity # <<>> =>
                        \E f \in DOMAIN files :
                            summary.lastActivity =
                                <<files[f][Len(files[f])].timestamp>>

\* C30 witness: a summary has been returned for a user whose one session
\* file holds two turns.
C30_Witness ==
    /\ last.op = "getUserSummary"
    /\ last.ok
    /\ last.ret[1].user.totalSessions = 1
    /\ last.ret[1].conversationSummary.totalMessages = 2
    /\ last.ret[1].conversationSummary.lastActivity # <<>>

-----------------------------------------------------------------------------
(* The frontend: App, UserProvider, WelcomeScreen and ChatInterface.  React *)
(* commits the state updates of an event handler, up to its first await,   *)
(* before it dispatches the next event, so a handler runs against the state *)
(* its predecessors left.  The backend is outside: a request resolves with  *)
(* a response or rejects.                                                  *)

\* what is typed in the name field and in the message field
UiNames == {<<>>, <<" ">>, <<" ", "a">>}
UiInputs == {<<>>, <<" ">>, <<"m", "1">>, <<" ", "m", "2">>}

\* the object POST /api/register-user answers with
RegisteredUser(name) ==
    [userId |-> ProgressId, name |-> name, message |-> <<"W">>]

\* how api.sendMessage settles: the response data, or an Error thrown by the
\* response interceptor
SendOutcomes ==
    {[ok |-> TRUE, response |-> <<"r">>, agent |-> "personality"],
     [ok |-> TRUE, response |-> <<"r">>, agent |-> Undefined],
     [ok |-> FALSE, response |-> <<>>, agent |-> Undefined]}

\* the message objects ChatInterface builds
UserMessage(content) ==
    [content |-> content, sender |-> "user", agent |-> Undefined,
     isError |-> FALSE]

BotMessage(content, agent) ==
    [content |-> content, sender |-> "bot", agent |-> agent, isError |-> FALSE]

ErrorMessage ==
    [content |-> <<"I", " ", "a">>, sender |-> "bot", agent |-> "master",
     isError |-> TRUE]

backend ==
    UNCHANGED <<store, now, last, nWrites, hist, expect, procs, overlapped,
                chat, user_profile>>

\* UserProvider: the effect of [user], run after the first render
UserProviderEffect ==
    /\ ~ui.mounted
    /\ ui' = [ui EXCEPT
                !.mounted = TRUE,
                !.sessionId = IF ui.user # <<>> /\ ui.sessionId = <<>>
                              THEN <<"session_1">> ELSE @]
    /\ backend

\* WelcomeScreen.handleSubmit up to its await; the form is disabled while
\* isLoading
WelcomeSubmit(name) ==
    /\ ui.mounted
    /\ ui.currentUser = <<>>
    /\ ui.registering = <<>>
    /\ ui' = IF Trim(name) = <<>>
             THEN [ui EXCEPT !.error = "Please enter your name to continue"]
             ELSE [ui EXCEPT !.error = "", !.registering = <<Trim(name)>>]
    /\ ui' # ui
    /\ backend

\* WelcomeScreen.handleSubmit after its await: onUserRegistered(response),
\* which is setCurrentUser of App, and ChatInterface mounts with the effect
\* that shows user.message; or the catch
RegisterSettles(ok) ==
    /\ ui.registering # <<>>
    /\ ui' = IF ok
             THEN LET response == RegisteredUser(ui.registering[1])
                      welcomeMessage == BotMessage(response.message, "master")
                  IN  [ui EXCEPT
                        !.registering = <<>>,
                        !.currentUser = <<response>>,
                        !.messages = <<welcomeMessage>>,
                        !.conversationHistory = Append(@, welcomeMessage)]
             ELSE [ui EXCEPT
                        !.registering = <<>>,
                        !.error = "Failed to register. Please try again."]
    /\ backend

\* onChange of the message field, which is disabled while isLoading
TypeInput(text) ==
    /\ ui.currentUser # <<>>
    /\ ~ui.isLoading
    /\ text # ui.inputMessage
    /\ ui' = [ui EXCEPT !.inputMessage = text]
    /\ backend

\* ChatInterface.handleSubmit up to its await
HandleSubmit ==
    /\ ui.currentUser # <<>>
    /\ ui.submits < MaxSubmits
    /\ ui' =
        IF Trim(ui.inputMessage) = <<>> \/ ui.isLoading
        THEN [ui EXCEPT !.submits = @ + 1,
                        !.ignored = IF ui.pending # <<>> THEN @ + 1 ELSE @]
        ELSE LET userMessage == UserMessage(Trim(ui.inputMessage))
                 request == [message |-> Trim(ui.inputMessage),
                             userId |-> ui.currentUser[1].userId,
                             sessionId |-> ui.sessionId]
             IN  [ui EXCEPT
                    !.submits = @ + 1,
                    !.messages = Append(@, userMessage),
                    !.conversationHistory = Append(@, userMessage),
                    !.inputMessage = <<>>,
                    !.isLoading = TRUE,
                    !.pending = Append(@, request),
                    !.sent = Append(@, request)]
    /\ backend

\* mutant: the finally block is left out
SendSettlesStillLoading(o) ==
    /\ ui.pending # <<>>
    /\ ui' = [ui EXCEPT !.messages = Append(@, ErrorMessage),
                        !.pending = Tail(@)]
    /\ backend

\* ChatInterface.handleSubmit after its await: the bot message, or the error
\* message of the catch, and the finally block
SendSettles(o) ==
    /\ ui.pending # <<>>
    /\ ui' =
        IF o.ok
        THEN LET agent == IF Falsy(o.agent) THEN "master" ELSE o.agent
                 botMessage == BotMessage(o.response, agent)
             IN  [ui EXCEPT
                    !.messages = Append(@, botMessage),
                    !.conversationHistory = Append(@, botMessage),
                    !.currentAgent = agent,
                    !.isLoading = FALSE,
                    !.pending = Tail(@)]
        ELSE [ui EXCEPT
                    !.messages = Append(@, ErrorMessage),
                    !.isLoading = FALSE,
                    !.pending = Tail(@)]
    /\ backend

NextUi ==
    \/ UserProviderEffect
    \/ \E name \in UiNames : WelcomeSubmit(name)
    \/ \E ok \in BOOLEAN : RegisterSettles(ok)
    \/ \E text \in UiInputs : TypeInput(text)
    \/ HandleSubmit
    \/ \E o \in SendOutcomes : SendSettles(o)

SpecUi == Init /\ [][NextUi]_vars

\* C28 (as claimed): every chat request ChatInterface has sent for a
\* registered user carries a session id that is not null, the same in all
\* of them.
C28_MessagesCarrySessionId ==
    \A i \in DOMAIN ui.sent :
        /\ ui.sent[i].sessionId # <<>>
        /\ ui.sent[i].sessionId = ui.sent[1].sessionId

\* the messages after the welcome message are a user message and its reply
\* in turn, the last user message lacking its reply exactly when loading
SubmitThenReply(messages, isLoading) ==
    /\ \A i \in 2..Len(messages) :
            messages[i].sender = IF i % 2 = 0 THEN "user" ELSE "bot"
    /\ isLoading <=> (Len(messages) % 2 = 0 /\ messages # <<>>)

\* C29: at most one chat request is in flight, and isLoading tells whether
\* one is; a submit made while one is in flight changes nothing; a submit
\* that is accepted appends one user message and sends one request; when
\* the request settles one bot or error message is appended and isLoading
\* is false; so the messages after the welcome message are a user message
\* and its reply in turn.
C29_OneRequestInFlight ==
    [][/\ Len(ui'.pending) <= 1
       /\ ui'.isLoading <=> ui'.pending # <<>>
       /\ SubmitThenReply(ui'.messages, ui'.isLoading)
       /\ (ui'.submits # ui.submits /\ ui.pending # <<>>) =>
            ui' = [ui EXCEPT !.submits = ui'.submits, !.ignored = ui'.ignored]
       /\ Len(ui'.sent) > Len(ui.sent) =>
            /\ ui.pending = <<>>
            /\ Len(ui'.sent) = Len(ui.sent) + 1
            /\ ui'.messages =
                Append(ui.messages, UserMessage(ui'.sent[Len(ui'.sent)].message))
       /\ Len(ui'.pending) < Len(ui.pending) =>
            /\ ~ui'.isLoading
            /\ Len(ui'.messages) = Len(ui.messages) + 1
            /\ ui'.messages[Len(ui'.messages)].sender = "bot"]_vars

\* C29 witness: a submit was dropped while a request was in flight, that
\* request failed, the next one succeeded, and the five messages are the
\* welcome, a user message, the error message, a user message and a reply.
C29_Witness ==
    /\ ui.ignored = 1
    /\ ui.submits = 3
    /\ Len(ui.sent) = 2
    /\ ~ui.isLoading
    /\ Len(ui.messages) = 5
    /\ ui.messages[3].isError
    /\ ~ui.messages[5].isError

====
